---- MODULE Spec2Model ----
(***************************************************************************)
(* Model of the backup utility: backup.py (archive a directory with 7z,    *)
(* upload the archive to the Google Drive folder 'Backups', optional local *)
(* cleanup) and restore.py (list / select / download a backup, or take a   *)
(* local archive, and extract it with 7z).                                 *)
(*                                                                         *)
(* One run of either command is a sequence of steps; the variable pc is   *)
(* the position of main().  The outcomes of the external collaborators     *)
(* (the file system, 7z, the Drive client library) are chosen with \E.     *)
(***************************************************************************)
EXTENDS Integers, Sequences, FiniteSets, TLC

\* ---------------------------------------------------------------- bounds
MaxSize == 3        \* largest archive size, in bytes
MaxFolders == 2     \* folders the remote store holds before the first run
MaxRuns == 2        \* backup runs made in sequence against the same store
MaxInvalid == 1     \* invalid answers typed at the selection prompt
MaxBackups == 2     \* .7z files the remote store offers for restore
MaxTotal == 20      \* largest total_bytes given to print_progress_bar on its own
MaxCalls == 3       \* calls of print_progress_bar within one such transfer

\* ------------------------------------------------------------- constants
DRIVE_FOLDER_NAME == "Backups"
None == "None"

FolderNames == {DRIVE_FOLDER_NAME, "Other"}

\* Local files of a run.  A file name is <<directory, stem, extension>>.
ArchiveFile == <<"destination_dir", "backup_label_ts", "7z">>     \* <backup_name>.7z
OldArchive == <<"destination_dir", "backup_label_old", "7z">>     \* an earlier archive
OtherFile == <<"destination_dir", "notes", "txt">>                \* an unrelated file
NestedArchive == <<"destination_dir/sub", "nested", "7z">>        \* an archive one level down
ScriptFile == <<"destination_dir", "temp_backup_command_uuid", "sh">>
DownloadFile == <<"target_dir_parent", "selected_backup", "7z">>  \* download_path
LocalArchive == <<"elsewhere", "archive_file", "7z">>             \* --archive_file
Files == {ArchiveFile, OldArchive, OtherFile, NestedArchive, ScriptFile,
          DownloadFile, LocalArchive}

\* A file is absent, holds part of its data, or holds all of it.
Absent == "absent"
Partial == "partial"
Whole == "whole"

VARIABLES
    prog,       \* "backup" or "restore": which command this run is
    args,       \* the parsed command line
    srcIsDir,   \* source_dir is an existing directory
    pc,         \* position of main()
    fs,         \* local files: name -> Absent / Partial / Whole
    destDir,    \* destination_dir exists
    out,        \* what the run printed, in order
    exitCode,   \* NotExited while running, 0 after main returned, 1 after a traceback
    calls,      \* the external operations the run has started
    folders,    \* remote store: the folders, in the order files().list returns them
    created,    \* number of folders the current run created
    resolved,   \* folder id resolved by each run that reached the upload
    runs,       \* number of runs started
    archive_file_path,  \* create_backup's result
    folder_id,
    upload_link,
    uploaded,   \* the remote store holds the new archive
    pending,    \* cleanup_all_7z_files: files of the glob still to visit
    archive_files_found,
    file_size,  \* declared total size of the transfer
    progress,   \* bytes the client library has transferred
    reported,   \* the current_bytes values handed to print_progress_bar
    last_printed_percentage,
    printed,    \* the percentages print_progress_bar wrote
    backups,    \* result of list_drive_backups
    selected,   \* index of the selected backup
    invalid,    \* invalid answers given so far
    download_ok,  \* result of download_file_from_drive
    extract_ok    \* 7z x exited 0 in this run

vars == <<prog, args, srcIsDir, pc, fs, destDir, out, exitCode, calls, folders,
          created, resolved, runs, archive_file_path, folder_id, upload_link,
          uploaded, pending, archive_files_found, file_size, progress, reported, last_printed_percentage, printed,
          backups, selected, invalid, download_ok, extract_ok>>

\* Groups used in UNCHANGED.
transferVars == <<file_size, progress, reported, last_printed_percentage, printed>>
remoteVars == <<folders, created, resolved, uploaded>>
restoreVars == <<backups, selected, invalid, download_ok, extract_ok>>
runVars == <<prog, args, srcIsDir, runs>>
cleanVars == <<pending, archive_files_found>>

\* ------------------------------------------------------------- helpers
IsGlob7z_Recursive(directory, f) == f[3] = "7z"

\* target_path.glob('*.7z'): the .7z files directly in the directory.
IsGlob7z(directory, f) == f[1] = directory /\ f[3] = "7z"

\* progress_percent = int((current_bytes / total_bytes) * 100)
ProgressPercent(current_bytes, total_bytes) == (current_bytes * 100) \div total_bytes

\* print_progress_bar: TRUE when the call writes a bar.
PrintsBar(current_bytes, total_bytes, last) ==
    /\ total_bytes # 0
    /\ LET p == ProgressPercent(current_bytes, total_bytes) IN
       /\ p % 5 = 0
       /\ p >= last
       /\ ~(p = last /\ p # 0)

\* print_progress_bar: the returned last_printed_percentage.
print_progress_bar(current_bytes, total_bytes, last) ==
    IF PrintsBar(current_bytes, total_bytes, last)
    THEN ProgressPercent(current_bytes, total_bytes)
    ELSE last

\* service.files().list(q="name='X' and mimeType=folder"): the matching
\* folders, in the order of the store.
RECURSIVE ListFolders(_, _)
ListFolders(store, name) ==
    IF store = <<>> THEN <<>>
    ELSE IF Head(store).name = name
         THEN <<Head(store)>> \o ListFolders(Tail(store), name)
         ELSE ListFolders(Tail(store), name)

\* service.files().create(body={name, mimeType=folder}): the store afterwards.
CreateFolder(store, name) == Append(store, [id |-> Len(store) + 1, name |-> name])

\* The remote stores a first run can meet.
InitialStores ==
    UNION {[1..n -> FolderNames] : n \in 0..MaxFolders}

StoreOf(names) == [i \in 1..Len(names) |-> [id |-> i, name |-> names[i]]]

NoFiles == [f \in Files |-> Absent]

\* A printed line: its kind and the file it names, if any.
NoPath == <<>>
NoFolder == 0
NotExited == -1
Msg(kind) == [msg |-> kind, file |-> NoPath]
FileMsg(kind, f) == [msg |-> kind, file |-> f]

\* ------------------------------------------------------------- start of a run
BackupArgs ==
    [cleanup : BOOLEAN, clean_all_zips : BOOLEAN, dry_run_cleanup : BOOLEAN]

RestoreArgs ==
    [archive_file : BOOLEAN, from_drive : BOOLEAN]

\* What destination_dir holds before a backup run: any of an earlier
\* archive, an unrelated file, and an archive in a subdirectory.
DestinationContents == SUBSET {OldArchive, OtherFile, NestedArchive}

FilesAtStart(present) == [f \in Files |-> IF f \in present THEN Whole ELSE Absent]

\* The local state a command starts in.
FreshRun(p, a, src, f) ==
    /\ prog = p
    /\ args = a
    /\ srcIsDir = src
    /\ pc = "start"
    /\ fs = f
    /\ out = <<>>
    /\ exitCode = NotExited
    /\ calls = {}
    /\ created = 0
    /\ archive_file_path = NoPath
    /\ folder_id = NoFolder
    /\ upload_link = None
    /\ uploaded = FALSE
    /\ pending = {}
    /\ archive_files_found = FALSE
    /\ file_size = 0
    /\ progress = 0
    /\ reported = <<>>
    /\ last_printed_percentage = -1
    /\ printed = <<>>
    /\ backups = <<>>
    /\ selected = 0
    /\ invalid = 0
    /\ download_ok = FALSE
    /\ extract_ok = FALSE

InitBackup ==
    \E a \in BackupArgs, src \in BOOLEAN, present \in DestinationContents :
        /\ FreshRun("backup", a, src, FilesAtStart(present))
        /\ destDir = (present # {})

InitRestore ==
    \E a \in RestoreArgs, have \in BOOLEAN :
        /\ FreshRun("restore", a, FALSE,
                    [NoFiles EXCEPT ![LocalArchive] = IF have THEN Whole ELSE Absent])
        /\ destDir = FALSE

Init ==
    /\ InitBackup \/ InitRestore
    /\ \E names \in InitialStores : folders = StoreOf(names)
    /\ resolved = <<>>
    /\ runs = 1

\* main() returns: the process exits with code 0.
Return(msgs) ==
    /\ pc' = "done"
    /\ exitCode' = 0
    /\ out' = out \o [i \in 1..Len(msgs) |-> Msg(msgs[i])]

\* An exception no handler catches: traceback, exit code 1.
Crash ==
    /\ pc' = "done"
    /\ exitCode' = 1
    /\ out' = Append(out, Msg("traceback"))

\* ------------------------------------------------------------- backup.py
\* create_backup returns None after printing msgs.
ReturnsNone(msgs) ==
    /\ pc' = "b_created"
    /\ archive_file_path' = NoPath
    /\ out' = out \o [i \in 1..Len(msgs) |-> Msg(msgs[i])]
    /\ UNCHANGED exitCode

SourceMissing_Never(isDir) == FALSE

\* create_backup, line 103: the source is not an existing directory.
SourceMissing(isDir) == ~isDir

\* create_backup, lines 100-107: the source check and the destination mkdir.
CreateBackupCheck ==
    /\ prog = "backup" /\ pc = "start"
    /\ IF SourceMissing(srcIsDir)
       THEN /\ ReturnsNone(<<"source_not_found">>)
            /\ UNCHANGED <<destDir, calls>>
       ELSE \/ /\ destDir' = TRUE
               /\ pc' = "cb_script"
               /\ UNCHANGED <<out, exitCode, calls, archive_file_path>>
            \/ /\ ~destDir           \* mkdir raises, outside the try block
               /\ Crash
               /\ UNCHANGED <<destDir, calls, archive_file_path>>
    /\ UNCHANGED <<runVars, fs, remoteVars, folder_id,
                   upload_link, cleanVars, transferVars, restoreVars>>

\* create_backup, lines 118-126: write the command script and chmod it.
\* open/write/chmod may raise; the handler at line 145 returns None.
CreateBackupScript ==
    /\ prog = "backup" /\ pc = "cb_script"
    /\ \/ /\ fs' = [fs EXCEPT ![ScriptFile] = Whole]
          /\ pc' = "cb_run"
          /\ UNCHANGED <<out, exitCode, archive_file_path>>
       \/ \E left \in {Absent, Partial, Whole} :   \* raised before, in or after the write
             /\ fs' = [fs EXCEPT ![ScriptFile] = left]
             /\ ReturnsNone(<<"compression_unexpected_error">>)
    /\ UNCHANGED <<runVars, destDir, calls, remoteVars,
                   folder_id, upload_link, cleanVars, transferVars, restoreVars>>

\* create_backup, lines 131-147: run the script, remove it, test the exit code.
CreateBackupRun ==
    /\ prog = "backup" /\ pc = "cb_run"
    /\ calls' = calls \cup {"7z_a"}
    /\ \/ \* 7z exited 0 and the script was removed
          /\ fs' = [fs EXCEPT ![ArchiveFile] = Whole, ![ScriptFile] = Absent]
          /\ archive_file_path' = ArchiveFile
          /\ pc' = "b_created"
          /\ out' = Append(out, Msg("backup_created"))
          /\ UNCHANGED exitCode
       \/ \* 7z exited nonzero
          \E left \in {Absent, Partial} :
             /\ fs' = [fs EXCEPT ![ArchiveFile] = left, ![ScriptFile] = Absent]
             /\ ReturnsNone(<<"compression_failed">>)
       \/ \* subprocess.run raises FileNotFoundError: the script stays
          /\ ReturnsNone(<<"7z_not_found">>)
          /\ UNCHANGED fs
       \/ \* subprocess.run or os.remove raises another exception
          \E left \in {Absent, Partial, Whole} :
             /\ fs' = [fs EXCEPT ![ArchiveFile] = left]
             /\ ReturnsNone(<<"compression_unexpected_error">>)
    /\ UNCHANGED <<runVars, destDir, remoteVars, folder_id, upload_link,
                   cleanVars, transferVars, restoreVars>>

NoArchive_Never(path) == FALSE

\* main, line 328: create_backup gave no archive.
NoArchive(path) == path = NoPath

\* main, lines 327-332: return when create_backup gave no archive, else
\* go on to the upload.
MainAfterCreate ==
    /\ prog = "backup" /\ pc = "b_created"
    /\ IF NoArchive(archive_file_path)
       THEN Return(<<>>)
       ELSE /\ out' = Append(out, Msg("starting_upload"))
            /\ pc' = "b_auth"
            /\ UNCHANGED exitCode
    /\ UNCHANGED <<runVars, fs, destDir, calls, remoteVars, archive_file_path,
                   folder_id, upload_link, cleanVars, transferVars, restoreVars>>

\* An exception inside main's try block (line 368): reported as a Google
\* Drive error, the run goes on to the clean-all-zips step.
DriveError ==
    /\ out' = Append(out, Msg("drive_error"))
    /\ pc' = "b_cleanall"
    /\ UNCHANGED exitCode

\* main, lines 333-336: authenticate.  authenticate_google_drive returns
\* credentials or raises.
BackupAuth ==
    /\ prog = "backup" /\ pc = "b_auth"
    /\ calls' = calls \cup {"auth"}
    /\ \/ /\ pc' = "b_resolve"
          /\ UNCHANGED <<out, exitCode>>
       \/ DriveError
    /\ UNCHANGED <<runVars, fs, destDir, remoteVars, archive_file_path, folder_id,
                   upload_link, cleanVars, transferVars, restoreVars>>

FolderMissing_Always(items) == TRUE

\* main, line 347: the folder is created when the search found none.
FolderMissing(items) == items = <<>>

\* main, line 357: the folder taken from a non-empty search result.
FoundFolder(items) == items[1].id

\* main, lines 338-358: get or create the folder named DRIVE_FOLDER_NAME.
ResolveFolder ==
    /\ prog = "backup" /\ pc = "b_resolve"
    /\ calls' = calls \cup {"list_folders"}
    /\ LET items == ListFolders(folders, DRIVE_FOLDER_NAME) IN
       \/ \* files().list raises
          /\ DriveError
          /\ UNCHANGED <<folders, created, resolved, folder_id>>
       \/ /\ FolderMissing(items)
          /\ \/ /\ folders' = CreateFolder(folders, DRIVE_FOLDER_NAME)
                /\ created' = created + 1
                /\ folder_id' = Len(folders')
                /\ resolved' = Append(resolved, folder_id')
                /\ pc' = "b_upload_begin"
                /\ UNCHANGED <<out, exitCode>>
             \/ \* files().create raises
                /\ DriveError
                /\ UNCHANGED <<folders, created, resolved, folder_id>>
       \/ /\ ~FolderMissing(items)
          /\ folder_id' = FoundFolder(items)
          /\ resolved' = Append(resolved, folder_id')
          /\ pc' = "b_upload_begin"
          /\ UNCHANGED <<folders, created, out, exitCode>>
    /\ UNCHANGED <<runVars, fs, destDir, uploaded, archive_file_path,
                   upload_link, cleanVars, transferVars, restoreVars>>

\* One call of print_progress_bar from a transfer loop (backup.py 194-197,
\* restore.py 168-171): the value handed over, the bar written, the new
\* last_printed_percentage.
ReportProgress(bytes) ==
    /\ reported' = Append(reported, bytes)
    /\ printed' = IF PrintsBar(bytes, file_size, last_printed_percentage)
                  THEN Append(printed, ProgressPercent(bytes, file_size))
                  ELSE printed
    /\ last_printed_percentage' =
          print_progress_bar(bytes, file_size, last_printed_percentage)

\* upload_to_drive, lines 169-188: open the media, read the file size.
UploadBegin ==
    /\ prog = "backup" /\ pc = "b_upload_begin"
    /\ calls' = calls \cup {"upload"}
    /\ \E size \in 1..MaxSize :
          /\ file_size' = size
          /\ pc' = "b_upload"
    /\ UNCHANGED <<runVars, fs, destDir, out, exitCode, remoteVars,
                   archive_file_path, folder_id, upload_link, cleanVars, progress,
                   reported, last_printed_percentage, printed, restoreVars>>

\* upload_to_drive, lines 191-197: one request.next_chunk().  While the
\* upload is unfinished the call returns (status, None); the call that
\* completes the upload returns (None, response).
UploadChunk ==
    /\ prog = "backup" /\ pc = "b_upload"
    /\ \/ \* (status, None): status.resumable_progress bytes are stored
          \E bytes \in (progress + 1)..(file_size - 1) :
             /\ progress' = bytes
             /\ ReportProgress(bytes)
             /\ UNCHANGED <<pc, out, exitCode, uploaded, upload_link>>
       \/ \* (None, response): the upload is complete (lines 199-202)
          \E link \in {"webViewLink", None} :
             /\ progress' = file_size
             /\ uploaded' = TRUE
             /\ upload_link' = link
             /\ out' = Append(out, Msg("upload_complete"))
             /\ pc' = "b_cleanup"
             /\ UNCHANGED <<exitCode, reported, last_printed_percentage, printed>>
       \/ \* next_chunk raises
          /\ DriveError
          /\ UNCHANGED <<progress, reported, last_printed_percentage, printed,
                         uploaded, upload_link>>
    /\ UNCHANGED <<runVars, fs, destDir, calls, folders, created, resolved,
                   archive_file_path, folder_id, cleanVars, file_size, restoreVars>>

DeletesAfterUpload_AnyRun(link, cleanup) == link # None

\* main, line 361: the condition of the post-upload deletion.
DeletesAfterUpload(link, cleanup) == link # None /\ cleanup

\* main, lines 360-369: optional deletion of the new archive.  os.remove
\* runs inside the try block of the Drive operations.
Cleanup ==
    /\ prog = "backup" /\ pc = "b_cleanup"
    /\ IF DeletesAfterUpload(upload_link, args.cleanup)
       THEN /\ calls' = calls \cup {"remove_archive"}
            /\ \/ /\ fs' = [fs EXCEPT ![archive_file_path] = Absent]
                  /\ out' = out \o <<FileMsg("deleting_local", archive_file_path),
                                     Msg("local_deleted")>>
                  /\ pc' = "b_cleanall"
                  /\ UNCHANGED exitCode
               \/ \* os.remove raises: caught at line 368
                  /\ out' = out \o <<FileMsg("deleting_local", archive_file_path),
                                     Msg("drive_error")>>
                  /\ pc' = "b_cleanall"
                  /\ UNCHANGED <<fs, exitCode>>
       ELSE /\ pc' = "b_cleanall"
            /\ UNCHANGED <<fs, out, exitCode, calls>>
    /\ UNCHANGED <<runVars, destDir, remoteVars, archive_file_path, folder_id,
                   upload_link, cleanVars, transferVars, restoreVars>>

\* main, lines 372-373 and cleanup_all_7z_files, lines 281-290: the
\* directory check and the glob.
CleanAllBegin ==
    /\ prog = "backup" /\ pc = "b_cleanall"
    /\ IF ~args.clean_all_zips
       THEN /\ Return(<<>>)
            /\ UNCHANGED <<pending, calls>>
       ELSE /\ calls' = calls \cup {"clean_all"}
            /\ IF ~destDir
               THEN /\ Return(<<"directory_not_found">>)
                    /\ UNCHANGED pending
               ELSE /\ pending' = {f \in Files : IsGlob7z("destination_dir", f)
                                                /\ fs[f] # Absent}
                    /\ out' = Append(out, Msg("cleanup_start"))
                    /\ pc' = "b_cleanall_loop"
                    /\ UNCHANGED exitCode
    /\ UNCHANGED <<runVars, fs, destDir, remoteVars, archive_file_path, folder_id,
                   upload_link, archive_files_found, transferVars, restoreVars>>

\* cleanup_all_7z_files, lines 290-299: one file of the glob.
CleanAllFile ==
    /\ prog = "backup" /\ pc = "b_cleanall_loop"
    /\ \E f \in pending :
          /\ pending' = pending \ {f}
          /\ archive_files_found' = TRUE
          /\ IF args.dry_run_cleanup
             THEN /\ out' = Append(out, FileMsg("would_delete", f))
                  /\ UNCHANGED fs
             ELSE \/ /\ fs' = [fs EXCEPT ![f] = Absent]
                     /\ out' = Append(out, FileMsg("deleted", f))
                  \/ \* os.remove raises OSError
                     /\ out' = Append(out, FileMsg("failed_to_delete", f))
                     /\ UNCHANGED fs
    /\ UNCHANGED <<runVars, pc, destDir, exitCode, calls, remoteVars,
                   archive_file_path, folder_id, upload_link, transferVars,
                   restoreVars>>

\* cleanup_all_7z_files, lines 301-306: the closing message; main returns.
CleanAllEnd ==
    /\ prog = "backup" /\ pc = "b_cleanall_loop"
    /\ pending = {}
    /\ Return(<<IF ~archive_files_found THEN "no_7z_files"
                ELSE IF args.dry_run_cleanup THEN "dry_run_complete"
                ELSE "cleanup_complete">>)
    /\ UNCHANGED <<runVars, fs, destDir, calls, remoteVars, archive_file_path,
                   folder_id, upload_link, cleanVars, transferVars, restoreVars>>

\* ------------------------------------------------------------- restore.py
\* The archive restore_backup is called with (main, lines 264 and 273).
RestoreSource == IF "download" \in calls THEN DownloadFile ELSE LocalArchive

FromDrive_AnyArchive(a) == a.from_drive \/ a.archive_file

\* main, line 232: the run takes the Drive branch.
FromDrive(a) == a.from_drive

\* main, lines 232-236 and 272-276: the branch on the arguments, and the
\* authentication of the --from_drive branch (outside any try block).
RestoreStart ==
    /\ prog = "restore" /\ pc = "start"
    /\ IF FromDrive(args)
       THEN /\ calls' = calls \cup {"auth"}
            /\ \/ /\ pc' = "r_list"
                  /\ UNCHANGED <<out, exitCode>>
               \/ Crash
       ELSE IF args.archive_file
       THEN /\ pc' = "r_extract"
            /\ UNCHANGED <<out, exitCode, calls>>
       ELSE /\ Return(<<"help", "must_specify_archive_file_or_from_drive">>)
            /\ UNCHANGED calls
    /\ UNCHANGED <<runVars, fs, destDir, remoteVars, archive_file_path, folder_id,
                   upload_link, cleanVars, transferVars, restoreVars>>

\* main, lines 238-247 and list_drive_backups, lines 46-75.  The entries
\* are the ones of the first folder named DRIVE_FOLDER_NAME, as sorted at
\* line 71; every exception yields the empty list.
RestoreList ==
    /\ prog = "restore" /\ pc = "r_list"
    /\ calls' = calls \cup {"list"}
    /\ \/ /\ Return(<<"listing_error", "no_backups">>)
          /\ UNCHANGED backups
       \/ /\ ListFolders(folders, DRIVE_FOLDER_NAME) = <<>>
          /\ Return(<<"folder_not_found", "no_backups">>)
          /\ UNCHANGED backups
       \/ /\ ListFolders(folders, DRIVE_FOLDER_NAME) # <<>>
          /\ \E n \in 0..MaxBackups : \E sizes \in [1..n -> 1..MaxSize] :
                /\ backups' = [i \in 1..n |-> [id |-> i, size |-> sizes[i]]]
                /\ IF n = 0
                   THEN Return(<<"no_backups">>)
                   ELSE /\ out' = Append(out, Msg("available_backups"))
                        /\ pc' = "r_select"
                        /\ UNCHANGED exitCode
    /\ UNCHANGED <<runVars, fs, destDir, remoteVars, archive_file_path, folder_id,
                   upload_link, cleanVars, transferVars, selected, invalid,
                   download_ok, extract_ok>>

\* main, lines 249-261: the selection prompt, then the mkdir of the
\* download directory.
RestoreSelect ==
    /\ prog = "restore" /\ pc = "r_select"
    /\ calls' = calls \cup {"select"}
    /\ \/ \* not a number, or a number out of range: ask again
          /\ invalid < MaxInvalid
          /\ invalid' = invalid + 1
          /\ out' = Append(out, Msg("invalid_choice"))
          /\ UNCHANGED <<pc, exitCode, selected>>
       \/ \E choice \in 1..Len(backups) :
             /\ selected' = choice
             /\ \/ /\ pc' = "r_download_begin"
                   /\ UNCHANGED <<out, exitCode>>
                \/ Crash          \* mkdir raises
             /\ UNCHANGED invalid
    /\ UNCHANGED <<runVars, fs, destDir, remoteVars, archive_file_path, folder_id,
                   upload_link, cleanVars, transferVars, backups, download_ok,
                   extract_ok>>

\* main, lines 269-270: download_file_from_drive returned False.
DownloadFailed ==
    /\ Return(<<"download_error", "failed_to_download">>)
    /\ UNCHANGED download_ok

\* download_file_from_drive, lines 155-163: build the request and open
\* destination_path for writing.
DownloadBegin ==
    /\ prog = "restore" /\ pc = "r_download_begin"
    /\ calls' = calls \cup {"download"}
    /\ \/ /\ fs' = [fs EXCEPT ![DownloadFile] = Partial]
          /\ file_size' = backups[selected].size
          /\ pc' = "r_download"
          /\ UNCHANGED <<out, exitCode, download_ok>>
       \/ \* build, get_media or the open raises
          /\ DownloadFailed
          /\ UNCHANGED <<fs, file_size>>
    /\ UNCHANGED <<runVars, destDir, remoteVars, archive_file_path, folder_id,
                   upload_link, cleanVars, progress, reported,
                   last_printed_percentage, printed, backups, selected, invalid,
                   extract_ok>>

\* download_file_from_drive, lines 165-179: one downloader.next_chunk().
\* Every call returns (status, done); done is True when all bytes arrived.
DownloadChunk ==
    /\ prog = "restore" /\ pc = "r_download"
    /\ \/ \E bytes \in (progress + 1)..file_size :
             /\ progress' = bytes
             /\ ReportProgress(bytes)
             /\ IF bytes = file_size
                THEN /\ fs' = [fs EXCEPT ![DownloadFile] = Whole]
                     /\ out' = Append(out, Msg("download_complete"))
                     /\ download_ok' = TRUE
                     /\ pc' = "r_extract"
                     /\ UNCHANGED exitCode
                ELSE UNCHANGED <<fs, out, download_ok, pc, exitCode>>
       \/ \* next_chunk raises
          /\ DownloadFailed
          /\ UNCHANGED <<fs, progress, reported, last_printed_percentage, printed>>
    /\ UNCHANGED <<runVars, destDir, calls, remoteVars, archive_file_path,
                   folder_id, upload_link, cleanVars, file_size, backups, selected,
                   invalid, extract_ok>>

\* restore_backup, lines 185-220.  The function returns nothing: a missing
\* archive and every failure of 7z are printed and swallowed.
RestoreBackup ==
    /\ prog = "restore" /\ pc = "r_extract"
    /\ \/ /\ fs[RestoreSource] = Absent
          /\ out' = Append(out, Msg("archive_not_found"))
          /\ UNCHANGED <<calls, extract_ok>>
       \/ /\ fs[RestoreSource] # Absent
          /\ calls' = calls \cup {"7z_x"}
          /\ \/ /\ fs[RestoreSource] = Whole
                /\ out' = out \o <<Msg("extraction_complete"), Msg("restore_complete")>>
                /\ extract_ok' = TRUE
             \/ /\ \E kind \in {"extraction_failed", "7z_not_found",
                                "restore_unexpected_error"} :
                      out' = Append(out, Msg(kind))
                /\ UNCHANGED extract_ok
    /\ IF "download" \in calls
       THEN pc' = "r_cleanup" /\ UNCHANGED exitCode
       ELSE pc' = "done" /\ exitCode' = 0
    /\ UNCHANGED <<runVars, fs, destDir, remoteVars, archive_file_path, folder_id,
                   upload_link, cleanVars, transferVars, backups, selected, invalid,
                   download_ok>>

\* main, lines 265-268: remove the downloaded archive.
RestoreCleanup ==
    /\ prog = "restore" /\ pc = "r_cleanup"
    /\ IF fs[DownloadFile] # Absent       \* download_path.exists()
       THEN /\ calls' = calls \cup {"remove_download"}
            /\ \/ /\ fs' = [fs EXCEPT ![DownloadFile] = Absent]
                  /\ Return(<<"cleaned_up_download">>)
               \/ /\ Crash        \* os.remove raises
                  /\ UNCHANGED fs
       ELSE /\ Return(<<>>)
            /\ UNCHANGED <<fs, calls>>
    /\ UNCHANGED <<runVars, destDir, remoteVars, archive_file_path, folder_id,
                   upload_link, cleanVars, transferVars, restoreVars>>

\* ------------------------------------------------------------- next run
\* The same backup command line is run again, against the remote store and
\* the destination directory the earlier run left.  The new run's archive
\* has a new timestamp in its name, so the archive of the earlier run is
\* one of the earlier archives now.
Rerun ==
    /\ prog = "backup" /\ pc = "done"
    /\ runs < MaxRuns
    /\ runs' = runs + 1
    /\ fs' = [fs EXCEPT ![ArchiveFile] = Absent,
                        ![OldArchive] = IF fs[ArchiveFile] # Absent
                                        THEN fs[ArchiveFile] ELSE fs[OldArchive]]
    /\ pc' = "start"
    /\ out' = <<>>
    /\ exitCode' = NotExited
    /\ calls' = {}
    /\ created' = 0
    /\ archive_file_path' = NoPath
    /\ folder_id' = NoFolder
    /\ upload_link' = None
    /\ uploaded' = FALSE
    /\ pending' = {}
    /\ archive_files_found' = FALSE
    /\ file_size' = 0
    /\ progress' = 0
    /\ reported' = <<>>
    /\ last_printed_percentage' = -1
    /\ printed' = <<>>
    /\ UNCHANGED <<prog, args, srcIsDir, destDir, folders, resolved, restoreVars>>

Next ==
    \/ CreateBackupCheck
    \/ CreateBackupScript
    \/ CreateBackupRun
    \/ MainAfterCreate
    \/ BackupAuth
    \/ ResolveFolder
    \/ UploadBegin
    \/ UploadChunk
    \/ Cleanup
    \/ CleanAllBegin
    \/ CleanAllFile
    \/ CleanAllEnd
    \/ RestoreStart
    \/ RestoreList
    \/ RestoreSelect
    \/ DownloadBegin
    \/ DownloadChunk
    \/ RestoreBackup
    \/ RestoreCleanup
    \/ Rerun

Spec == Init /\ [][Next]_vars

\* ------------------------------------------------------------- print_progress_bar alone
\* A transfer loop seen from print_progress_bar (backup.py 186-197,
\* restore.py 163-171): last_printed_percentage starts at -1, the total is
\* any size, zero included.
InitProgress ==
    /\ prog = "progress"
    /\ args = [cleanup |-> FALSE, clean_all_zips |-> FALSE, dry_run_cleanup |-> FALSE]
    /\ srcIsDir = FALSE
    /\ pc = "transfer"
    /\ fs = NoFiles
    /\ destDir = FALSE
    /\ out = <<>>
    /\ exitCode = NotExited
    /\ calls = {}
    /\ folders = <<>>
    /\ created = 0
    /\ resolved = <<>>
    /\ runs = 1
    /\ archive_file_path = NoPath
    /\ folder_id = NoFolder
    /\ upload_link = None
    /\ uploaded = FALSE
    /\ pending = {}
    /\ archive_files_found = FALSE
    /\ file_size \in 0..MaxTotal
    /\ progress = 0
    /\ reported = <<>>
    /\ last_printed_percentage = -1
    /\ printed = <<>>
    /\ backups = <<>>
    /\ selected = 0
    /\ invalid = 0
    /\ download_ok = FALSE
    /\ extract_ok = FALSE

\* One call of print_progress_bar with a byte count that is not below the
\* one of the call before; the returned value is threaded into the next call.
ProgressCall ==
    /\ prog = "progress"
    /\ Len(reported) < MaxCalls
    /\ \E bytes \in progress..file_size :
          /\ progress' = bytes
          /\ ReportProgress(bytes)
    /\ UNCHANGED <<runVars, pc, fs, destDir, out, exitCode, calls, remoteVars,
                   archive_file_path, folder_id, upload_link, cleanVars, file_size,
                   restoreVars>>

NextProgress == ProgressCall

SpecProgress == InitProgress /\ [][NextProgress]_vars

\* ------------------------------------------------------------- properties
Printed(kind) == \E i \in 1..Len(out) : out[i].msg = kind

Count(seq, v) == Cardinality({i \in 1..Len(seq) : seq[i] = v})

NonDecreasing(seq) == \A i \in 1..Len(seq) : \A j \in i..Len(seq) : seq[i] <= seq[j]

\* C1: in a backup run the local deletion of the new archive after the
\* upload (Uploading -> CleaningUp) is only started when --cleanup was
\* given and the upload succeeded; it is never started after an upload
\* that raised.
C1_CleanupOnlyOnRequestAfterUpload ==
    (prog = "backup" /\ "remove_archive" \in calls) =>
        /\ args.cleanup
        /\ uploaded
        /\ Printed("upload_complete")

C1_Witness ==
    /\ prog = "backup"
    /\ "remove_archive" \in calls
    /\ fs[ArchiveFile] = Absent
    /\ uploaded

\* C2 (as claimed): while a --from_drive download has not completed its
\* final chunk, and after it failed, no file exists at download_path.
C2_NoPartialFileUnderFinalName ==
    (prog = "restore" /\ "download" \in calls /\ ~download_ok) =>
        fs[DownloadFile] = Absent

\* C3 (as claimed): during one upload or download the bytes handed to
\* print_progress_bar never decrease, and once the transfer is complete
\* the last value handed over is the total size, handed over exactly once.
C3_ProgressMonotonicAndFinalTotal ==
    /\ NonDecreasing(reported)
    /\ (uploaded \/ download_ok) =>
          /\ reported # <<>>
          /\ reported[Len(reported)] = file_size
          /\ Count(reported, file_size) = 1

FailureKinds ==
    {"source_not_found", "compression_failed", "7z_not_found",
     "compression_unexpected_error", "drive_error", "download_error",
     "listing_error", "archive_not_found", "extraction_failed",
     "restore_unexpected_error", "must_specify_archive_file_or_from_drive",
     "traceback"}

Failed == \E i \in 1..Len(out) : out[i].msg \in FailureKinds

\* C4 (as claimed): a finished run has exit code 0 when nothing failed and
\* a nonzero exit code when an error was left unrecovered.
C4_ExitCodeTellsFailure ==
    pc = "done" => (IF Failed THEN exitCode # 0 ELSE exitCode = 0)

\* C5: create_backup on a source that is not a directory returns None
\* after printing that the source was not found, and leaves the file
\* system alone: no destination directory, no script, no 7z, no archive;
\* the run then ends without authentication or upload.
C5_MissingSourceCreatesNothing ==
    [][(prog = "backup" /\ ~srcIsDir /\ pc # "done") =>
          /\ pc' \in {"b_created", "done"}
          /\ archive_file_path' = NoPath
          /\ Printed("source_not_found")'
          /\ destDir' = destDir
          /\ fs' = fs
          /\ calls' = {}]_vars

C5_Witness ==
    /\ prog = "backup" /\ ~srcIsDir /\ pc = "done"
    /\ Printed("source_not_found")
    /\ ~destDir
    /\ fs[ArchiveFile] = Absent

\* C6: two backup runs in sequence against the same remote store resolve
\* the folder 'Backups' to the same identifier, and a run that follows
\* one that resolved the folder creates no folder.
C6_FolderResolutionIdempotent ==
    Len(resolved) >= 2 =>
        /\ \A i \in 1..Len(resolved) : resolved[i] = resolved[1]
        /\ created = 0

C6_Witness ==
    /\ Len(resolved) = 2
    /\ created = 0
    /\ resolved[1] = resolved[2]
    /\ Len(ListFolders(folders, DRIVE_FOLDER_NAME)) = 1
    /\ Len(folders) = 1

DriveSteps == {"auth", "list", "select", "download", "remove_download"}

\* C7 (as claimed): whenever --archive_file is given, a restore run does no
\* authentication, listing, selection or download.
C7_ArchiveFileSkipsDrive ==
    (prog = "restore" /\ args.archive_file) => calls \cap DriveSteps = {}

\* C7 (amended): when --archive_file is given and --from_drive is not, the
\* run goes from the start straight to the extraction and does no
\* authentication, listing, selection or download.
C7_ArchiveFileAloneSkipsDrive ==
    (prog = "restore" /\ args.archive_file /\ ~args.from_drive) =>
        /\ calls \cap DriveSteps = {}
        /\ pc \in {"start", "r_extract", "done"}

C7_Witness ==
    /\ prog = "restore" /\ args.archive_file /\ ~args.from_drive
    /\ pc = "done"
    /\ "7z_x" \in calls

AfterArchiving == {"auth", "list_folders", "upload", "remove_archive", "clean_all"}

\* C8: in a backup run authentication, folder resolution, upload and both
\* cleanups only start after create_backup returned the archive path (7z
\* exited 0); a run whose archiving failed ends without any of them.
C8_NothingAfterFailedArchiving ==
    prog = "backup" =>
        /\ (calls \cap AfterArchiving # {}) =>
               (archive_file_path = ArchiveFile /\ Printed("backup_created"))
        /\ (pc \in {"b_auth", "b_resolve", "b_upload_begin", "b_upload", "b_cleanup",
                    "b_cleanall", "b_cleanall_loop"}) =>
               (archive_file_path = ArchiveFile /\ "7z_a" \in calls)
        /\ (pc = "done" /\ archive_file_path = NoPath) => calls \subseteq {"7z_a"}

C8_Witness ==
    /\ prog = "backup" /\ pc = "done"
    /\ archive_file_path = NoPath
    /\ Printed("compression_failed")
    /\ args.clean_all_zips /\ args.cleanup
    /\ fs[OldArchive] = Whole

\* C9 (as claimed): once the upload has succeeded, a failing deletion of
\* the local archive is not reported as a Google Drive error.
C9_CleanupFailureNotADriveError ==
    (prog = "backup" /\ uploaded) => ~Printed("drive_error")

\* C10 (as claimed): the downloaded archive is removed only when the
\* extraction succeeded, and is still there at the end of a run whose
\* extraction failed.
C10_DownloadRemovedOnlyAfterRestore ==
    prog = "restore" =>
        /\ "remove_download" \in calls => extract_ok
        /\ (pc = "done" /\ download_ok /\ ~extract_ok) => fs[DownloadFile] # Absent

\* C11 (as claimed): within one transfer the percentages print_progress_bar
\* writes are multiples of 5 between 0 and 100, never decrease, and no
\* percentage is written twice.
C11_PrintedPercentagesOnce ==
    /\ \A i \in 1..Len(printed) :
          printed[i] % 5 = 0 /\ printed[i] >= 0 /\ printed[i] <= 100
    /\ NonDecreasing(printed)
    /\ \A i \in 1..Len(printed) : Count(printed, printed[i]) = 1

\* C12: cleanup_all_7z_files with dry_run=True changes no file; with
\* dry_run=False the only files it changes are .7z files directly in
\* destination_dir, which it removes; without --clean-all-zips the run
\* ends with no cleanup, whatever --dry-run-cleanup says.
C12_DryRunOnlySimulates ==
    [][(prog = "backup" /\ pc \in {"b_cleanall", "b_cleanall_loop"}) =>
          /\ args.dry_run_cleanup => fs' = fs
          /\ \A f \in Files :
                fs'[f] # fs[f] => (f \in {ArchiveFile, OldArchive} /\ fs'[f] = Absent)
          /\ ~args.clean_all_zips =>
                (fs' = fs /\ pc' = "done" /\ "clean_all" \notin calls')]_vars

C12_Witness ==
    /\ prog = "backup" /\ pc = "done"
    /\ args.clean_all_zips /\ ~args.dry_run_cleanup
    /\ Printed("cleanup_complete")
    /\ fs[ArchiveFile] = Absent /\ fs[OldArchive] = Absent
    /\ fs[OtherFile] = Whole /\ fs[NestedArchive] = Whole

\* C13 (as claimed): a backup run whose archive was created ends with a
\* copy of the archive: the local file is still whole unless the upload
\* completed.
C13_ArchiveSurvivesTheRun ==
    (prog = "backup" /\ pc = "done" /\ archive_file_path = ArchiveFile) =>
        (fs[ArchiveFile] = Whole \/ uploaded)

\* C14 (as claimed): once create_backup has returned, with a path or with
\* None, the temporary command script is no longer in destination_dir.
C14_ScriptRemovedOnReturn ==
    (prog = "backup" /\ pc \notin {"start", "cb_script", "cb_run"}) =>
        fs[ScriptFile] = Absent

====
